---- MODULE Spec2Model ----
(***************************************************************************)
(* Resilient HTTP request layer of plugin-chutes (src/common/api-utils.ts) *)
(* withTimeout, withRetry and fetchWithRetry on a single event loop.       *)
(*                                                                         *)
(* One behaviour is one call of withRetry.  The attempt function is either *)
(* the closure fetchWithRetry passes (kind = "fetch") or a caller-supplied *)
(* function that settles as it likes (kind = "fn").  Every action is one   *)
(* task of the event loop together with the promise reactions it triggers. *)
(***************************************************************************)
EXTENDS Integers, Sequences, FiniteSets, TLC

(* ------------------------------ bounds --------------------------------- *)
\* largest options.retries explored for fetchWithRetry
MaxRetriesBound == 2
\* largest options.retries explored for an arbitrary attempt function, whose
\* failed attempts each multiply the histories to explore
MaxFnRetries == 1
\* largest options.timeout explored (milliseconds)
MaxTimeout == 2

(* ------------------------------ inputs --------------------------------- *)
PrimaryUrl == "A"
FallbackChoices == {<< >>, <<"B">>, <<"B", "C">>}
RetryDelays == {10}
RandomSteps == {0, 3}
Statuses == {200, 204, 400, 401, 404, 408, 429, 503}
\* response bodies and the content-type header they come with:
\*   "json"          a JSON object without a message field
\*   "json:message"  a JSON object with a message field
\*   "json:noChute"  {"detail": "No matching chute found!"}
\*   "text"          text that is not JSON
\*   "empty"         no body
ResponseShapes ==
  {<<"json", "json">>, <<"json:message", "json">>, <<"json:noChute", "json">>,
   <<"text", "text">>, <<"text", "json">>, <<"empty", "none">>}

VARIABLES
  kind,            \* "fetch": the closure of fetchWithRetry; "fn": any function
  requestOptions,  \* RequestOptions: timeout, retries, retryDelay, fallbackEndpoints
  pc,              \* withRetry: "idle", "race", "backoff", "returned", "thrown"
  retryCount,      \* withRetry: let retryCount
  lastError,       \* withRetry: let lastError
  retryAttempt,    \* fetchWithRetry: let retryAttempt
  currentUrl,      \* fetchWithRetry: let currentUrl
  fallbackIndex,   \* fetchWithRetry: let fallbackIndex
  calls,           \* one record per invocation of the attempt function
  wt,              \* one record per withTimeout call (parallel to calls)
  timers,          \* pending setTimeout callbacks
  warnings,        \* console.warn lines of withRetry
  returned,        \* value withRetry resolved with
  now,             \* Date.now()
  validation,      \* one call of validateResponseData: arguments and outcome
  client,          \* one call of a ChutesClient method: arguments and outcome
  other,           \* the locals of a second call of fetchWithRetry, while
                   \* the variables above hold those of the call that runs
  limiter,         \* one rate limiter: the locals of createRateLimiter and
                   \* what the last call on it returned
  plugin           \* one construction of ChutesApiPlugin: the config given
                   \* and its outcome

\* what the request layer does not touch
extVars == <<validation, client, other, limiter, plugin>>

\* the state of one call of withRetry
reqVars == <<kind, requestOptions, pc, retryCount, lastError, retryAttempt,
             currentUrl, fallbackIndex, calls, wt, timers, warnings, returned, now>>

vars == <<reqVars, extVars>>

(* ------------------------------ values --------------------------------- *)
NoOp == <<0, 0>>
NoError == [name |-> "undefined", status |-> 0, op |-> NoOp, ms |-> 0]

ApiTimeoutError(operationName, timeoutMs) ==
  [name |-> "ApiTimeoutError", status |-> 0, op |-> operationName, ms |-> timeoutMs]

ApiResponseError(status) ==
  [name |-> "ApiResponseError", status |-> status, op |-> NoOp, ms |-> 0]

OtherError(name) == [name |-> name, status |-> 0, op |-> NoOp, ms |-> 0]

\* how a call of the attempt function's underlying operation can settle
Pending == [k |-> "pending", status |-> 0, body |-> "none", ctype |-> "none"]
ResponseOf(status, body, ctype) ==
  [k |-> "response", status |-> status, body |-> body, ctype |-> ctype]
Response(status) == ResponseOf(status, "json", "json")
Rejection(name) == [k |-> name, status |-> 0, body |-> "none", ctype |-> "none"]
Value == [k |-> "value", status |-> 0, body |-> "none", ctype |-> "none"]
Throws(status) ==
  [k |-> "ApiResponseError", status |-> status, body |-> "none", ctype |-> "none"]

\* outcomes of fetch(): a response, or a rejection
FetchOutcomes(aborted) ==
  {ResponseOf(s, sh[1], sh[2]) : s \in Statuses, sh \in ResponseShapes}
    \cup {Rejection("TypeError:fetch"), Rejection("TypeError"), Rejection("Error")}
    \cup (IF aborted THEN {Rejection("AbortError")} ELSE {})

\* outcomes of an arbitrary attempt function: a value, or a thrown error
FnOutcomes(aborted) ==
  {Value}
    \cup {Throws(s) : s \in Statuses \ {200, 204}}
    \cup {Rejection("Error")}
    \cup (IF aborted THEN {Rejection("AbortError")} ELSE {})

\* outcomes of an operation whose race is already decided
LateOutcomes(aborted) ==
  {IF kind = "fetch" THEN Response(200) ELSE Value}
    \cup (IF aborted THEN {Rejection("AbortError")} ELSE {})

NoResult ==
  [tag |-> "undefined", success |-> FALSE, data |-> "undefined",
   message |-> "undefined", code |-> "undefined", status |-> 0,
   details |-> "undefined", metrics |-> FALSE, retries |-> 0,
   endpoint |-> "undefined", _retries |-> 0]

(* --------------------------- DEFAULT_REQUEST_OPTIONS ------------------- *)
validateStatus(status) == status >= 200 /\ status < 300

(* ------------------------------ withRetry ------------------------------ *)
maxRetries == requestOptions.retries
initialDelay == requestOptions.retryDelay

\* while (retryCount <= maxRetries)
LoopCond(rc) == rc <= maxRetries

\* fault variant of Inc: the count is not advanced
IncSkip(rc) == rc
\* retryCount++
Inc(rc) == rc + 1

\* if (retryCount > maxRetries) break
Exhausted(rc) == rc > maxRetries

\* fault variant of NonRetryable: 408 and 429 are not excepted
NonRetryableAll4xx(error) ==
  /\ error.name = "ApiResponseError"
  /\ error.status # 0
  /\ error.status >= 400 /\ error.status < 500
\* fault variant of NonRetryable: the lower bound is exclusive
NonRetryableAbove400(error) ==
  /\ error.name = "ApiResponseError"
  /\ error.status # 0
  /\ error.status > 400 /\ error.status < 500
  /\ error.status # 408 /\ error.status # 429
\* error instanceof ApiResponseError && error.status && 4xx except 408, 429
NonRetryable(error) ==
  /\ error.name = "ApiResponseError"
  /\ error.status # 0
  /\ error.status >= 400 /\ error.status < 500
  /\ error.status # 408 /\ error.status # 429

RECURSIVE Pow2(_)
Pow2(n) == IF n <= 0 THEN 1 ELSE 2 * Pow2(n - 1)

\* fault variant of Backoff: the exponent is retryCount
BackoffDoubled(rc, r) == (initialDelay * Pow2(rc) * (8 + r)) \div 10
\* initialDelay * Math.pow(2, retryCount - 1) * (0.8 + Math.random() * 0.4),
\* Math.random() = r / 4
Backoff(rc, r) == (initialDelay * Pow2(rc - 1) * (8 + r)) \div 10

\* fault variant of LastError: the first error is kept
FirstError(previous, error) == IF previous = NoError THEN error ELSE previous
\* lastError = error
LastError(previous, error) == error

\* fault variant of Warn: the first failure is not logged
WarnAfterFirst(lines, rc, delay) ==
  IF rc = 1 THEN lines ELSE Append(lines, [attempt |-> rc, delay |-> delay])
\* console.warn(`API request failed (attempt ${retryCount}/...), retrying in ...`)
Warn(lines, rc, delay) == Append(lines, [attempt |-> rc, delay |-> delay])

\* fault variant of BackoffDue: the wait is not awaited
BackoffDueAtOnce(t, delay) == t
\* await new Promise(resolve => setTimeout(resolve, delay))
BackoffDue(t, delay) == t + delay

\* `API request (attempt ${retryCount + 1}/${maxRetries + 1})`
OperationName(rc) == <<rc + 1, maxRetries + 1>>

(* ---------------------------- fetchWithRetry --------------------------- *)
fallbackEndpoints == requestOptions.fallbackEndpoints
allEndpoints == <<PrimaryUrl>> \o fallbackEndpoints

\* fault variant of PolicyAfterCall: the list of all endpoints is built in
\* the policy's own array
PolicyWithUrlPrepended(options) ==
  [options EXCEPT !.fallbackEndpoints = <<PrimaryUrl>> \o @]
\* requestOptions after fetchWithRetry has read it: `requestOptions
\* .fallbackEndpoints || []` and `[url, ...fallbackEndpoints]` build new
\* arrays, withRetry copies retries and retryDelay into constants
PolicyAfterCall(options) == options

\* fault variant of EndpointIndex: the rotation skips the primary URL
EndpointIndexFallbacksOnly(retry) == ((retry - 1) % Len(fallbackEndpoints)) + 1
\* retry % allEndpoints.length
EndpointIndex(retry) == retry % Len(allEndpoints)

\* if (retry > 0 && fallbackEndpoints.length > 0)
UseFallback(retry) == retry > 0 /\ Len(fallbackEndpoints) > 0

\* response.json() succeeds
IsJson(body) == body \in {"json", "json:message", "json:noChute"}

\* fault variant of Metrics: the endpoint is the url argument
MetricsOfUrl(retry, endpoint) == [retries |-> retry, endpoint |-> PrimaryUrl]
\* metrics: { responseTime, retries: retryAttempt, endpoint: currentUrl }
Metrics(retry, endpoint) == [retries |-> retry, endpoint |-> endpoint]

\* fault variant of ErrorData: a failure also carries the decoded body
ErrorDataKept(details) == details
\* the data property of a failure Result (none is set)
ErrorData(details) == "undefined"

\* the value the closure resolves with for an outcome of fetch()
FetchResult(o, retry, endpoint) ==
  LET m == Metrics(retry, endpoint)
      base == [NoResult EXCEPT !.tag = "ApiResponse", !.metrics = TRUE,
                               !.retries = m.retries, !.endpoint = m.endpoint]
      unknown == [base EXCEPT !.message = "message", !.code = "UNKNOWN_ERROR",
                              !.details = "error"]
  IN IF o.k = "response" /\ ~validateStatus(o.status)
       THEN \* errorDetails = await response.json(), else response.text() on
            \* the body json() has consumed, else the generic message
            LET details == IF IsJson(o.body) THEN o.body ELSE "undefined"
            IN [base EXCEPT !.message = IF o.body = "json:message"
                                          THEN "body.message" ELSE "HTTP Error",
                            !.status = o.status,
                            !.details = details,
                            !.data = ErrorData(details)]
     ELSE IF o.k = "response" /\ o.ctype = "json"
       THEN IF IsJson(o.body)
              THEN [base EXCEPT !.success = TRUE, !.data = o.body]
              ELSE unknown   \* response.json() throws a SyntaxError
     ELSE IF o.k = "response" /\ o.status = 204
       THEN [base EXCEPT !.success = TRUE, !.data = "{}"]
     ELSE IF o.k = "response"
       THEN [base EXCEPT !.success = TRUE, !.data = o.body]
     ELSE IF o.k = "AbortError"
       THEN [base EXCEPT !.message = "Request was aborted", !.code = "ABORTED"]
     ELSE IF o.k = "TypeError:fetch"
       THEN [base EXCEPT !.message = "Network error", !.code = "NETWORK_ERROR",
                         !.details = "message"]
     ELSE unknown

\* how the attempt function settles for an outcome of its operation
FnSettles(o, retry, endpoint) ==
  IF kind = "fetch"
    THEN [fulfilled |-> TRUE, value |-> FetchResult(o, retry, endpoint),
          error |-> NoError]
  ELSE IF o.k = "value"
    THEN [fulfilled |-> TRUE, value |-> [NoResult EXCEPT !.tag = "value"],
          error |-> NoError]
  ELSE IF o.k = "ApiResponseError"
    THEN [fulfilled |-> FALSE, value |-> NoResult,
          error |-> ApiResponseError(o.status)]
  ELSE [fulfilled |-> FALSE, value |-> NoResult, error |-> OtherError(o.k)]

(* ------------------------------ withTimeout ---------------------------- *)
timeout == requestOptions.timeout

Timer(k, i, due) == [kind |-> k, attempt |-> i, due |-> due]

\* fault variant of AbortDue: the abort is set one millisecond after the rejection
AbortDueLater(t) == t + timeout + 1
\* setTimeout(() => controller.abort(), timeoutMs)
AbortDue(t) == t + timeout
\* fault variant of RejectDue: the timer is set one millisecond short
RejectDueEarly(t) == t + timeout - 1
\* setTimeout(() => reject(new ApiTimeoutError(...)), timeoutMs)
RejectDue(t) == t + timeout

\* fault variant of TimeoutTimers: the timer of the rejection is not set
TimeoutTimersAbortOnly(rc, t) == {Timer("abort", rc, AbortDue(t))}
\* the two setTimeout calls of one withTimeout call
TimeoutTimers(rc, t) ==
  {Timer("abort", rc, AbortDue(t)), Timer("reject", rc, RejectDue(t))}

\* fault variant of NewSignal: one controller serves every attempt
ReusedSignal(cs) == Len(cs) > 0 /\ cs[Len(cs)].aborted
\* const controller = new AbortController(): signal.aborted of a new controller
NewSignal(cs) == FALSE

\* fault variant of ClearTimeout: the timer of controller.abort() is left set
ClearTimeoutNone(tms, i) == tms
\* .finally(() => clearTimeout(timeoutId))
ClearTimeout(tms, i) == {t \in tms : ~(t.kind = "abort" /\ t.attempt = i)}

\* fault variant of LateResult: the last settlement decides
LateResultWins(current, late) == late
\* Promise.race is settled by the first of its promises to settle: what the
\* operation settles with afterwards is dropped
LateResult(current, late) == current

Cur == Len(calls)

(* ------------------------------ Init ----------------------------------- *)
NoValidation == [state |-> "none"]
NoClient == [state |-> "none"]
NoOther == [pc |-> "none"]
NoLimiter == [op |-> "none"]
NoPlugin == [state |-> "none"]

\* the state at the call of withRetry
InitRequest ==
  /\ kind \in {"fetch", "fn"}
  /\ requestOptions \in
       [timeout : 1..MaxTimeout, retries : 0..MaxRetriesBound,
        retryDelay : RetryDelays, fallbackEndpoints : FallbackChoices]
  /\ kind = "fn" => /\ requestOptions.fallbackEndpoints = << >>
                    /\ requestOptions.retries <= MaxFnRetries
  /\ pc = "idle"
  /\ retryCount = 0
  /\ lastError = NoError
  /\ retryAttempt = 0
  /\ currentUrl = PrimaryUrl
  /\ fallbackIndex = 0
  /\ calls = << >>
  /\ wt = << >>
  /\ timers = {}
  /\ warnings = << >>
  /\ returned = NoResult
  /\ now = 0

Init ==
  /\ InitRequest
  /\ validation = NoValidation
  /\ client = NoClient
  /\ other = NoOther
  /\ limiter = NoLimiter
  /\ plugin = NoPlugin

(* ---------------------------- action parts ----------------------------- *)
\* one loop iteration up to the await: withTimeout sets its two timers and
\* calls fn(retryCount, signal); the closure of fetchWithRetry picks the URL
\* and calls fetch
AttemptStart(rc, tms) ==
  LET idx == IF UseFallback(rc) THEN EndpointIndex(rc) ELSE fallbackIndex
      target == IF UseFallback(rc) THEN allEndpoints[idx + 1] ELSE currentUrl
  IN /\ pc' = "race"
     /\ timers' = tms \cup TimeoutTimers(rc, now)
     /\ wt' = Append(wt, [start |-> now, op |-> OperationName(rc),
                          state |-> "pending", error |-> NoError, at |-> 0])
     /\ IF kind = "fetch"
          THEN /\ retryAttempt' = rc
               /\ fallbackIndex' = idx
               /\ currentUrl' = target
               /\ calls' = Append(calls, [url |-> target,
                                          aborted |-> NewSignal(calls),
                                          outcome |-> Pending])
          ELSE /\ UNCHANGED <<retryAttempt, fallbackIndex, currentUrl>>
               /\ calls' = Append(calls, [url |-> "fn",
                                          aborted |-> NewSignal(calls),
                                          outcome |-> Pending])

\* catch (error) { ... } of withRetry, up to the throw or the backoff await
Catch(error, tms) ==
  LET rc == Inc(retryCount)
  IN /\ lastError' = LastError(lastError, error)
     /\ retryCount' = rc
     /\ IF Exhausted(rc) \/ NonRetryable(error)
          THEN /\ pc' = "thrown"
               /\ timers' = tms
               /\ UNCHANGED warnings
          ELSE \E r \in RandomSteps :
                 /\ pc' = "backoff"
                 /\ timers' = tms \cup {Timer("backoff", rc, BackoffDue(now, Backoff(rc, r)))}
                 /\ warnings' = Warn(warnings, rc, Backoff(rc, r))

(* ------------------------------ actions -------------------------------- *)
\* withRetry(fn, options) is called
Invoke ==
  /\ UNCHANGED extVars
  /\ pc = "idle"
  /\ IF LoopCond(retryCount)
       THEN /\ AttemptStart(retryCount, timers)
            /\ UNCHANGED <<retryCount, lastError, warnings, returned>>
       ELSE /\ pc' = "thrown"
            /\ UNCHANGED <<retryCount, lastError, warnings, returned, timers,
                           wt, calls, retryAttempt, fallbackIndex, currentUrl>>
  /\ requestOptions' = PolicyAfterCall(requestOptions)
  /\ UNCHANGED <<kind, now>>

\* the operation of the current attempt settles while the race is open
Settles(outcomes) ==
  /\ UNCHANGED extVars
  /\ pc = "race"
  /\ \E o \in outcomes :
       LET s == FnSettles(o, retryAttempt, currentUrl)
           tms == ClearTimeout(timers, Cur - 1)
       IN /\ calls' = [calls EXCEPT ![Cur].outcome = o]
          /\ wt' = [wt EXCEPT ![Cur].state =
                                 IF s.fulfilled THEN "fulfilled" ELSE "rejected",
                              ![Cur].error = s.error,
                              ![Cur].at = now]
          /\ IF s.fulfilled
               THEN /\ pc' = "returned"
                    /\ returned' = [s.value EXCEPT !._retries = retryCount]
                    /\ timers' = tms
                    /\ UNCHANGED <<retryCount, lastError, warnings>>
               ELSE /\ Catch(s.error, tms)
                    /\ UNCHANGED returned
  /\ UNCHANGED <<kind, requestOptions, retryAttempt, currentUrl, fallbackIndex, now>>

OperationSettles ==
  Settles(IF kind = "fetch" THEN FetchOutcomes(calls[Cur].aborted)
                            ELSE FnOutcomes(calls[Cur].aborted))

\* the operation of an attempt settles after its race was decided
LateSettle ==
  /\ UNCHANGED extVars
  /\ \E i \in 1..Len(calls) :
    /\ calls[i].outcome = Pending
    /\ wt[i].state # "pending"
    /\ \E o \in LateOutcomes(calls[i].aborted) :
         /\ calls' = [calls EXCEPT ![i].outcome = o]
         /\ returned' = LateResult(returned,
                                    FnSettles(o, retryAttempt, currentUrl).value)
    /\ UNCHANGED <<kind, requestOptions, pc, retryCount, lastError, retryAttempt,
                   currentUrl, fallbackIndex, wt, timers, warnings, now>>

\* the callback of timeoutId runs: controller.abort()
AbortTimer ==
  /\ UNCHANGED extVars
  /\ \E t \in timers :
    /\ t.kind = "abort"
    /\ t.due <= now
    /\ timers' = timers \ {t}
    /\ calls' = [calls EXCEPT ![t.attempt + 1].aborted = TRUE]
    /\ UNCHANGED <<kind, requestOptions, pc, retryCount, lastError, retryAttempt,
                   currentUrl, fallbackIndex, wt, warnings, returned, now>>

\* the callback of the second timer runs: reject(new ApiTimeoutError(...)).
\* Both timers of one withTimeout call have the same delay and timeoutId is
\* set first, so its callback runs first.
RejectTimer ==
  /\ UNCHANGED extVars
  /\ \E t \in timers :
    /\ t.kind = "reject"
    /\ t.due <= now
    /\ Timer("abort", t.attempt, t.due) \notin timers
    /\ LET i == t.attempt + 1
           tms == ClearTimeout(timers \ {t}, t.attempt)
           error == ApiTimeoutError(wt[i].op, timeout)
       IN IF wt[i].state = "pending"
            THEN /\ wt' = [wt EXCEPT ![i].state = "rejected",
                                     ![i].error = error,
                                     ![i].at = now]
                 /\ Catch(error, tms)
            ELSE /\ timers' = timers \ {t}
                 /\ UNCHANGED <<wt, pc, retryCount, lastError, warnings>>
    /\ UNCHANGED <<kind, requestOptions, retryAttempt, currentUrl, fallbackIndex,
                   calls, returned, now>>

\* the backoff timer runs: the loop goes round
BackoffTimer ==
  /\ UNCHANGED extVars
  /\ \E t \in timers :
    /\ t.kind = "backoff"
    /\ t.due <= now
    /\ pc = "backoff"
    /\ IF LoopCond(retryCount)
         THEN AttemptStart(retryCount, timers \ {t})
         ELSE /\ pc' = "thrown"
              /\ timers' = timers \ {t}
              /\ UNCHANGED <<wt, calls, retryAttempt, fallbackIndex, currentUrl>>
    /\ UNCHANGED <<kind, requestOptions, retryCount, lastError, warnings,
                   returned, now>>

\* the earliest time at which a pending timer is due
NextDue == CHOOSE d \in {t.due : t \in timers} : \A t \in timers : d <= t.due

\* time passes; a due timer runs before the clock moves on.  While a race is
\* open the clock moves one millisecond at a time, otherwise it moves to the
\* next timer (nothing in between reads the clock)
Tick ==
  /\ UNCHANGED extVars
  /\ timers # {}
  /\ \A t \in timers : t.due > now
  /\ now' = IF pc = "race" THEN now + 1 ELSE NextDue
  /\ UNCHANGED <<kind, requestOptions, pc, retryCount, lastError, retryAttempt,
                 currentUrl, fallbackIndex, calls, wt, timers, warnings, returned>>

Next ==
  \/ Invoke
  \/ OperationSettles
  \/ LateSettle
  \/ AbortTimer
  \/ RejectTimer
  \/ BackoffTimer
  \/ Tick

Spec == Init /\ [][Next]_vars


(* ------------------------- validateResponseData ------------------------ *)
\* Objects are functions on Keys; "absent" marks a property the object does
\* not have, "undefined" a property whose value is undefined.
Keys == {"id", "name", "public"}
NoFields == [k \in Keys |-> "absent"]

DataChoices ==
  {[type |-> t, fields |-> NoFields] : t \in {"undefined", "null", "string"}}
    \cup {[type |-> "object", fields |-> f] :
            f \in [Keys -> {"absent", "undefined", "x"}]}
RequiredChoices == {<< >>, <<"id">>, <<"id", "name">>, <<"name", "id">>}
DefaultChoices == [Keys -> {"absent", "d"}]

\* fault variant of Spread: only the keys of the defaults are kept
SpreadDefaultKeysOnly(defaultValues, fields) ==
  [k \in Keys |-> IF defaultValues[k] = "absent" THEN "absent"
                  ELSE IF fields[k] # "absent" THEN fields[k]
                  ELSE defaultValues[k]]
\* fault variant of Spread: the defaults are spread last
SpreadDefaultsLast(defaultValues, fields) ==
  [k \in Keys |-> IF defaultValues[k] # "absent" THEN defaultValues[k]
                                                 ELSE fields[k]]
\* { ...defaultValues, ...data }
Spread(defaultValues, fields) ==
  [k \in Keys |-> IF fields[k] # "absent" THEN fields[k] ELSE defaultValues[k]]

\* data[key] === undefined
IsUndefined(fields, key) == fields[key] \in {"absent", "undefined"}

\* the first key of requiredKeys the loop throws for (0: none)
RECURSIVE FirstMissing(_, _, _)
FirstMissing(fields, requiredKeys, i) ==
  IF i > Len(requiredKeys) THEN 0
  ELSE IF IsUndefined(fields, requiredKeys[i]) THEN i
  ELSE FirstMissing(fields, requiredKeys, i + 1)

ValidationError(message, field) ==
  [name |-> "Error", message |-> message, field |-> field]

validateResponseData(data, requiredKeys, defaultValues) ==
  LET m == FirstMissing(data.fields, requiredKeys, 1)
  IN IF data.type # "object"   \* !data || typeof data !== 'object'
       THEN [state |-> "thrown", value |-> NoFields,
             error |-> ValidationError("Invalid API response: expected an object",
                                       "none")]
     ELSE IF m # 0
       THEN [state |-> "thrown", value |-> NoFields,
             error |-> ValidationError("Missing required field in API response: ",
                                       requiredKeys[m])]
     ELSE [state |-> "returned", value |-> Spread(defaultValues, data.fields),
           error |-> ValidationError("none", "none")]

\* a call that was not made
NotCalled ==
  [state |-> "none", value |-> NoFields,
   error |-> ValidationError("none", "none")]

InitValidate ==
  /\ InitRequest
  /\ kind = "fetch"
  /\ requestOptions = [timeout |-> 1, retries |-> 0, retryDelay |-> 10,
                       fallbackEndpoints |-> << >>]
  /\ client = NoClient
  /\ other = NoOther
  /\ limiter = NoLimiter
  /\ plugin = NoPlugin
  /\ \E d \in DataChoices, r \in RequiredChoices, dv \in DefaultChoices :
       validation = [state |-> "called", data |-> d, requiredKeys |-> r,
                     defaultValues |-> dv, value |-> NoFields,
                     error |-> ValidationError("none", "none"),
                     again |-> NotCalled]

\* validateResponseData(data, requiredKeys, defaultValues) runs
Validate ==
  /\ validation.state = "called"
  /\ LET res == validateResponseData(validation.data, validation.requiredKeys,
                                     validation.defaultValues)
     IN validation' = [validation EXCEPT !.state = res.state,
                                         !.value = res.value,
                                         !.error = res.error]
  /\ UNCHANGED <<reqVars, client, other, limiter, plugin>>

\* validateResponseData(result, requiredKeys, defaultValues) runs on the
\* object the first call returned
Revalidate ==
  /\ validation.state = "returned"
  /\ validation.again.state = "none"
  /\ validation' =
       [validation EXCEPT !.again =
          validateResponseData([type |-> "object", fields |-> validation.value],
                               validation.requiredKeys,
                               validation.defaultValues)]
  /\ UNCHANGED <<reqVars, client, other, limiter, plugin>>

NextValidate ==
  \/ Validate
  \/ Revalidate

SpecValidate == InitValidate /\ [][NextValidate]_vars


(* ----------------------------- ChutesClient ---------------------------- *)
MaxClientRetries == 1

\* the public methods modelled; each makes one request
Methods == {"listChutes", "getChute", "deleteChute", "getImage", "executeCord"}

\* the endpoint a method passes to makeRequest
Endpoint(method) ==
  IF method = "listChutes" THEN "/chutes"
  ELSE IF method = "getImage" THEN "/images/id"
  ELSE "/chutes/id"

\* an Error leaving the client: the tag its message starts with ("none" for an
\* error passed on as it is), the text after the tag, and the status the text
\* holds (0: none)
ClientError(name, tag, text, status) ==
  [name |-> name, tag |-> tag, text |-> text, status |-> status]
NoClientError == ClientError("undefined", "none", "none", 0)

Returns(value) == [state |-> "returned", value |-> value, error |-> NoClientError]
Raises(error) == [state |-> "thrown", value |-> "undefined", error |-> error]

\* response.error?.message || "Unknown API error"; the status is part of the
\* text only for the message fetchWithRetry builds from the status line
ErrorMessage(r) ==
  IF r.message = "undefined" THEN [text |-> "Unknown API error", status |-> 0]
  ELSE IF r.message = "HTTP Error" THEN [text |-> r.message, status |-> r.status]
  ELSE [text |-> r.message, status |-> 0]

\* fault variant of NoChuteCase: the text is looked for in the message
NoChuteCaseInMessage(endpoint, r) ==
  /\ r.status = 404
  /\ r.message = "json:noChute"
  /\ endpoint = "/chutes"
\* status 404, details.detail === "No matching chute found!", endpoint "/chutes"
NoChuteCase(endpoint, r) ==
  /\ r.status = 404
  /\ r.details = "json:noChute"
  /\ endpoint = "/chutes"

\* makeRequest after `await fetchWithRetry(...)`: p is "returned" with the
\* Result r, or "thrown" with the error e that withRetry rejected with
makeRequest(endpoint, p, r, e) ==
  IF p = "thrown"
    THEN Raises(ClientError(e.name, "none", "timed out", 0))
  ELSE IF ~r.success
    THEN LET m == ErrorMessage(r)
         IN IF NoChuteCase(endpoint, r) THEN Returns("[]")
            ELSE IF r.status = 401 \/ r.status = 403
              THEN Raises(ClientError("Error", "Authentication error: ",
                                      m.text, m.status))
            ELSE Raises(ClientError("Error", "Chutes API error: ",
                                    m.text, m.status))
  ELSE Returns(r.data)

\* error.message.includes("404"), .includes("403")
IncludesStatus(error, status) == error.status = status

\* error.message.includes("No matching chute found"): the text of the body's
\* detail field is in no message that fetchWithRetry builds
IncludesNoChute(error) == error.text = "json:noChute"

\* the decoded payload as validateResponseData sees it
DataOf(data) ==
  IF data = "json"
    THEN [type |-> "object",
          fields |-> [k \in Keys |-> IF k = "public" THEN "absent" ELSE "x"]]
  ELSE IF IsJson(data) \/ data = "{}"
    THEN [type |-> "object", fields |-> NoFields]
  ELSE [type |-> "string", fields |-> NoFields]

\* validateResponseData<ChutesChute>(x, [...], { public: false })
Validated(data) ==
  LET v == validateResponseData(DataOf(data), <<"id", "name">>,
                                [k \in Keys |-> IF k = "public" THEN "d"
                                                                ELSE "absent"])
  IN IF v.state = "returned" THEN Returns(data)
     ELSE Raises(ClientError(v.error.name, "none", v.error.message, 0))

\* Array.isArray(response) ? response.map(validate) : []; the only array
\* among the payloads is the empty one makeRequest returns
ValidatedList(data) == Returns("[]")

listChutes(p, r, e) ==
  LET res == makeRequest(Endpoint("listChutes"), p, r, e)
  IN IF res.state = "returned" THEN ValidatedList(res.value)
     ELSE IF IncludesNoChute(res.error) THEN Returns("[]")
     ELSE res

getChute(p, r, e) ==
  LET res == makeRequest(Endpoint("getChute"), p, r, e)
  IN IF res.state = "returned" THEN Validated(res.value) ELSE res

deleteChute(p, r, e) ==
  LET res == makeRequest(Endpoint("deleteChute"), p, r, e)
  IN IF res.state = "returned" THEN Returns("true")
     ELSE IF IncludesStatus(res.error, 404) THEN Returns("true")
     ELSE res

\* isDeveloper: what checkDeveloperStatus (which never throws) answers
getImage(p, r, e, isDeveloper) ==
  LET res == makeRequest(Endpoint("getImage"), p, r, e)
      out == IF res.state = "returned" THEN Validated(res.value) ELSE res
  IN IF out.state = "thrown"
        /\ (IncludesStatus(out.error, 404) \/ IncludesStatus(out.error, 403))
        /\ ~isDeveloper
       THEN Raises(ClientError("Error", "Failed to get image: ",
                               "requirementMessage", 0))
     ELSE out

executeCord(p, r, e) ==
  IF p = "thrown"
    THEN Raises(ClientError(e.name, "none", "timed out", 0))
  ELSE IF ~r.success
    THEN LET m == ErrorMessage(r)
         IN Raises(ClientError("Error", "Cord execution failed: ",
                               m.text, m.status))
  ELSE Returns(r.data)

MethodOutcome(method, p, r, e, isDeveloper) ==
  IF method = "listChutes" THEN listChutes(p, r, e)
  ELSE IF method = "getChute" THEN getChute(p, r, e)
  ELSE IF method = "deleteChute" THEN deleteChute(p, r, e)
  ELSE IF method = "getImage" THEN getImage(p, r, e, isDeveloper)
  ELSE executeCord(p, r, e)

\* ApiLogger.request(method, url, options): a console.log line
ApiLoggerRequest(console) == Append(console, "API Request")

\* fault variant of ApiLoggerResponse: the logged Result loses its details
ApiLoggerResponseRedacts(console, response) ==
  [console |-> Append(console, IF response.success THEN "API Success"
                                                   ELSE "API Error"),
   response |-> [response EXCEPT !.details = "undefined"]]
\* ApiLogger.response(method, url, response): a console.log line for a
\* Success, a console.error line for a Failure; response is the object the
\* caller goes on with
ApiLoggerResponse(console, response) ==
  [console |-> Append(console, IF response.success THEN "API Success"
                                                   ELSE "API Error"),
   response |-> response]

\* ApiLogger.error(method, url, error): a console.error line
ApiLoggerError(console) == Append(console, "API Exception")

\* a method of the client is called: it logs the request and calls
\* fetchWithRetry with the
\* requestOptions of the constructor
InitClient ==
  /\ InitRequest
  /\ kind = "fetch"
  /\ requestOptions.retries <= MaxClientRetries
  /\ requestOptions.fallbackEndpoints # << >>
  /\ validation = NoValidation
  /\ other = NoOther
  /\ limiter = NoLimiter
  /\ plugin = NoPlugin
  /\ \E m \in Methods :
       client = [state |-> "called", method |-> m, value |-> "undefined",
                 error |-> NoClientError,
                 console |-> ApiLoggerRequest(<< >>)]

RequestSettled == pc \in {"returned", "thrown"}

\* the request of the method is under way
RequestStep ==
  /\ client.state = "called"
  /\ ~RequestSettled
  /\ Next

\* the method's code after `await fetchWithRetry(...)`; it runs as the
\* promise settles, before any other task
ClientContinues ==
  /\ client.state = "called"
  /\ RequestSettled
  /\ \E isDeveloper \in BOOLEAN :
       LET logged == IF pc = "returned"
                       THEN ApiLoggerResponse(client.console, returned)
                       ELSE [console |-> client.console, response |-> returned]
           res == MethodOutcome(client.method, pc, logged.response, lastError,
                                isDeveloper)
       IN client' = [client EXCEPT !.state = res.state, !.value = res.value,
                                   !.error = res.error,
                                   !.console = logged.console]
  /\ UNCHANGED <<reqVars, validation, other, limiter, plugin>>

NextClient ==
  \/ RequestStep
  \/ ClientContinues

SpecClient == InitClient /\ [][NextClient]_vars


(* ------------------- two concurrent calls of fetchWithRetry ------------ *)
\* the retries the two calls may make between them
MaxConcurrentRetries == 1

\* the locals of the call that runs: those of fetchWithRetry (lines 196-203),
\* of withRetry (128-132) and of its withTimeout calls
Context ==
  [requestOptions |-> requestOptions, pc |-> pc, retryCount |-> retryCount,
   lastError |-> lastError, retryAttempt |-> retryAttempt,
   currentUrl |-> currentUrl, fallbackIndex |-> fallbackIndex, calls |-> calls,
   wt |-> wt, timers |-> timers, warnings |-> warnings, returned |-> returned]

\* the locals of a call that has not started
IdleContext(options) ==
  [requestOptions |-> options, pc |-> "idle", retryCount |-> 0,
   lastError |-> NoError, retryAttempt |-> 0, currentUrl |-> PrimaryUrl,
   fallbackIndex |-> 0, calls |-> << >>, wt |-> << >>, timers |-> {},
   warnings |-> << >>, returned |-> NoResult]

ConcurrentOptions ==
  [timeout : {1}, retries : 0..MaxConcurrentRetries, retryDelay : RetryDelays,
   fallbackEndpoints : {<< >>, <<"B">>}]

\* what fetch answers while two calls run
ConcurrentOutcomes(aborted) ==
  {Response(200), Response(503), Rejection("TypeError:fetch")}
    \cup (IF aborted THEN {Rejection("AbortError")} ELSE {})

\* fault variant of OwnRetryAttempt: one variable for all calls
SharedRetryAttempt(own, last) == last
\* `let retryAttempt = 0` is declared in the body of fetchWithRetry: a call
\* that runs again finds the value it wrote itself
OwnRetryAttempt(own, last) == own

InitConcurrent ==
  /\ InitRequest
  /\ kind = "fetch"
  /\ requestOptions \in ConcurrentOptions
  /\ validation = NoValidation
  /\ client = NoClient
  /\ limiter = NoLimiter
  /\ plugin = NoPlugin
  /\ \E options \in ConcurrentOptions :
       /\ requestOptions.retries + options.retries <= MaxConcurrentRetries
       /\ other = IdleContext(options)

\* the next task of the event loop belongs to the other call
Switch ==
  /\ other' = Context
  /\ requestOptions' = other.requestOptions
  /\ pc' = other.pc
  /\ retryCount' = other.retryCount
  /\ lastError' = other.lastError
  /\ retryAttempt' = OwnRetryAttempt(other.retryAttempt, retryAttempt)
  /\ currentUrl' = other.currentUrl
  /\ fallbackIndex' = other.fallbackIndex
  /\ calls' = other.calls
  /\ wt' = other.wt
  /\ timers' = other.timers
  /\ warnings' = other.warnings
  /\ returned' = other.returned
  /\ UNCHANGED <<kind, now, validation, client, limiter, plugin>>

ConcurrentSettles == Settles(ConcurrentOutcomes(calls[Cur].aborted))

\* the earliest time at which a timer of either call is due
NextDueOfBoth ==
  CHOOSE d \in {t.due : t \in timers \cup other.timers} :
    \A t \in timers \cup other.timers : d <= t.due

\* time passes for both calls
TickBoth ==
  /\ timers \cup other.timers # {}
  /\ \A t \in timers \cup other.timers : t.due > now
  /\ now' = IF pc = "race" \/ other.pc = "race" THEN now + 1 ELSE NextDueOfBoth
  /\ UNCHANGED <<kind, requestOptions, pc, retryCount, lastError, retryAttempt,
                 currentUrl, fallbackIndex, calls, wt, timers, warnings, returned,
                 extVars>>

NextConcurrent ==
  \/ Invoke
  \/ ConcurrentSettles
  \/ LateSettle
  \/ AbortTimer
  \/ RejectTimer
  \/ BackoffTimer
  \/ Switch
  \/ TickBoth

SpecConcurrent == InitConcurrent /\ [][NextConcurrent]_vars

(* ------------------ fetchWithRetry: decoding the response -------------- *)
MaxFetchRetries == 1

\* what fetch answers: as ResponseShapes, and a JSON content type on no body;
\* a response with status 204 has no body
DecodeOutcomes(aborted) ==
  {ResponseOf(s, sh[1], sh[2]) :
     s \in Statuses \ {204}, sh \in ResponseShapes \cup {<<"empty", "json">>}}
    \cup {ResponseOf(204, "empty", ct) : ct \in {"none", "json", "text"}}
    \cup {Rejection("TypeError:fetch"), Rejection("TypeError"), Rejection("Error")}
    \cup (IF aborted THEN {Rejection("AbortError")} ELSE {})

InitFetch ==
  /\ InitRequest
  /\ kind = "fetch"
  /\ requestOptions.timeout = 1
  /\ requestOptions.retries <= MaxFetchRetries
  /\ validation = NoValidation
  /\ client = NoClient
  /\ other = NoOther
  /\ limiter = NoLimiter
  /\ plugin = NoPlugin

FetchSettles == Settles(DecodeOutcomes(calls[Cur].aborted))

NextFetch ==
  \/ Invoke
  \/ FetchSettles
  \/ LateSettle
  \/ AbortTimer
  \/ RejectTimer
  \/ BackoffTimer
  \/ Tick

SpecFetch == InitFetch /\ [][NextFetch]_vars

(* --------------------------- createRateLimiter ------------------------- *)
MaxLimit == 4
MaxWindow == 2
MaxClock == 4
MaxThrottled == 2

Min(a, b) == IF a < b THEN a ELSE b
Max(a, b) == IF a > b THEN a ELSE b

NoMetrics ==
  [availableTokens |-> 0, totalThrottled |-> 0, timeSinceLastRefill |-> 0,
   nextRefillMs |-> 0]

\* limit and tokens are JavaScript numbers, not only whole ones: they are
\* counted here in halves of a token, so a limit of 3 stands for 1.5 and
\* `tokens--` takes TokenUnit away
TokenUnit == 2

\* createRateLimiter(limit, timeWindow) at time t.  exposes: "checkLimit" for
\* the limiter of part_002 (checkLimit only), "all" for the one of part_005
\* (checkLimit, getMetrics, reset)
createRateLimiter(exposes, limit, timeWindow, t) ==
  [exposes |-> exposes, limit |-> limit, timeWindow |-> timeWindow,
   tokens |-> limit, lastRefill |-> t, totalThrottled |-> 0,
   op |-> "create", allowed |-> FALSE, metrics |-> NoMetrics,
   exhaustedAt |-> -1]

\* checkLimit() at time t
checkLimit(l, t) ==
  LET timePassed == t - l.lastRefill
      refillAmount == (timePassed \div l.timeWindow) * l.limit
      tokens == IF timePassed > 0 THEN Min(l.limit, l.tokens + refillAmount)
                                  ELSE l.tokens
      lastRefill == IF timePassed > 0 THEN t ELSE l.lastRefill
  IN IF tokens > 0
       THEN [l EXCEPT !.tokens = tokens - TokenUnit, !.lastRefill = lastRefill,
                      !.op = "checkLimit", !.allowed = TRUE]
       ELSE [l EXCEPT !.tokens = tokens, !.lastRefill = lastRefill,
                      !.totalThrottled = IF l.exposes = "all" THEN @ + 1 ELSE @,
                      !.op = "checkLimit", !.allowed = FALSE]

\* fault variant of getMetrics: reading the metrics restarts the window
getMetricsRestartsWindow(l, t) ==
  [l EXCEPT !.op = "getMetrics", !.lastRefill = t,
            !.metrics = [availableTokens |-> l.tokens,
                         totalThrottled |-> l.totalThrottled,
                         timeSinceLastRefill |-> t - l.lastRefill,
                         nextRefillMs |-> Max(0, l.timeWindow - (t - l.lastRefill))]]
\* getMetrics() at time t
getMetrics(l, t) ==
  [l EXCEPT !.op = "getMetrics",
            !.metrics = [availableTokens |-> l.tokens,
                         totalThrottled |-> l.totalThrottled,
                         timeSinceLastRefill |-> t - l.lastRefill,
                         nextRefillMs |-> Max(0, l.timeWindow - (t - l.lastRefill))]]

\* reset() at time t
reset(l, t) ==
  [l EXCEPT !.op = "reset", !.tokens = l.limit, !.lastRefill = t,
            !.totalThrottled = 0]

InitLimiter ==
  /\ InitRequest
  /\ kind = "fetch"
  /\ requestOptions = [timeout |-> 1, retries |-> 0, retryDelay |-> 10,
                       fallbackEndpoints |-> << >>]
  /\ validation = NoValidation
  /\ client = NoClient
  /\ other = NoOther
  /\ plugin = NoPlugin
  /\ \E exposes \in {"checkLimit", "all"}, limit \in 0..MaxLimit,
        timeWindow \in 1..MaxWindow :
       limiter = createRateLimiter(exposes, limit, timeWindow, now)

\* history kept for the properties: the time of the checkLimit call that took
\* the last token of the bucket, -1 while the bucket is not empty
ExhaustedAt(l, t) ==
  IF l.tokens > 0 THEN -1
  ELSE IF l.op = "checkLimit" /\ l.allowed THEN t
  ELSE l.exhaustedAt

Noted(l, t) == [l EXCEPT !.exhaustedAt = ExhaustedAt(l, t)]

CheckLimit ==
  /\ limiter.totalThrottled < MaxThrottled
  /\ limiter' = Noted(checkLimit(limiter, now), now)
  /\ UNCHANGED <<reqVars, validation, client, other, plugin>>

GetMetrics ==
  /\ limiter.exposes = "all"
  /\ limiter' = Noted(getMetrics(limiter, now), now)
  /\ UNCHANGED <<reqVars, validation, client, other, plugin>>

Reset ==
  /\ limiter.exposes = "all"
  /\ limiter' = Noted(reset(limiter, now), now)
  /\ UNCHANGED <<reqVars, validation, client, other, plugin>>

\* Date.now() moves on
ClockTick ==
  /\ now < MaxClock
  /\ now' = now + 1
  /\ UNCHANGED <<kind, requestOptions, pc, retryCount, lastError, retryAttempt,
                 currentUrl, fallbackIndex, calls, wt, timers, warnings, returned,
                 extVars>>

NextLimiter ==
  \/ CheckLimit
  \/ GetMetrics
  \/ Reset
  \/ ClockTick

SpecLimiter == InitLimiter /\ [][NextLimiter]_vars

(* ------------------ withRetry over any attempt function ---------------- *)
InitRetry ==
  /\ Init
  /\ kind = "fn"

SpecRetry == InitRetry /\ [][Next]_vars

(* ---------------------------- ChutesApiPlugin -------------------------- *)
MaxKeyLength == 9
MinKeyLength == 8

\* config.apiKey: undefined, the text "YOUR_API_KEY", or a text of a given
\* length of which `trimmed` characters remain after trim()
ApiKeys ==
  {[kind |-> "undefined", length |-> 0, trimmed |-> 0],
   [kind |-> "placeholder", length |-> 12, trimmed |-> 12]}
    \cup {[kind |-> "text", length |-> n, trimmed |-> m] :
            n \in 0..MaxKeyLength, m \in 0..MaxKeyLength}

\* !config.apiKey
KeyMissing(apiKey) == apiKey.kind = "undefined" \/ apiKey.length = 0

\* config.apiKey === "YOUR_API_KEY" || config.apiKey.trim().length < 8
KeySuspect(apiKey) ==
  apiKey.kind = "placeholder" \/ apiKey.trimmed < MinKeyLength

\* validateApiKey(config) of the utilities in use: "part_002" checks that a
\* key is given, "part_005" also looks at its format
validateApiKey(utils, apiKey, console) ==
  IF KeyMissing(apiKey)
    THEN [thrown |-> TRUE, console |-> console]
  ELSE IF utils = "part_005" /\ KeySuspect(apiKey)
    THEN [thrown |-> FALSE, console |-> ApiLoggerError(console)]
  ELSE [thrown |-> FALSE, console |-> console]

InitPlugin ==
  /\ InitRequest
  /\ kind = "fetch"
  /\ requestOptions = [timeout |-> 1, retries |-> 0, retryDelay |-> 10,
                       fallbackEndpoints |-> << >>]
  /\ validation = NoValidation
  /\ client = NoClient
  /\ other = NoOther
  /\ limiter = NoLimiter
  /\ \E utils \in {"part_002", "part_005"}, apiKey \in ApiKeys :
       /\ apiKey.trimmed <= apiKey.length
       /\ plugin = [state |-> "constructing", utils |-> utils,
                    apiKey |-> apiKey, client |-> FALSE, console |-> << >>]

\* new ChutesApiPlugin(config): validateApiKey(this.config), then
\* this.client = new ChutesClient(this.config)
Construct ==
  /\ plugin.state = "constructing"
  /\ LET v == validateApiKey(plugin.utils, plugin.apiKey, plugin.console)
     IN plugin' = [plugin EXCEPT !.state = IF v.thrown THEN "thrown"
                                                       ELSE "constructed",
                                 !.client = ~v.thrown,
                                 !.console = v.console]
  /\ UNCHANGED <<reqVars, validation, client, other, limiter>>

NextPlugin == Construct

SpecPlugin == InitPlugin /\ [][NextPlugin]_vars

(* ------------------- fetchWithRetry while timers fire ------------------ *)
\* The event loop runs every timer callback that is due and the clock moves
\* on; the call itself is made.  Nothing is assumed of the network: the
\* fetch of an attempt may never settle.
TimersFire ==
  /\ WF_vars(Invoke)
  /\ WF_vars(AbortTimer)
  /\ WF_vars(RejectTimer)
  /\ WF_vars(BackoffTimer)
  /\ WF_vars(Tick)

SpecFetchLive == InitFetch /\ [][NextFetch]_vars /\ TimersFire

(* ----------------------------- properties ------------------------------ *)
Settled == pc \in {"returned", "thrown"}
Attempts == 1..Len(calls)
Range(f) == {f[j] : j \in DOMAIN f}

\* C1: withRetry invokes the attempt function at most maxRetries + 1 times,
\* whatever the outcomes of the attempts are.
C1_AttemptsBounded == Len(calls) <= maxRetries + 1

C1_Witness == maxRetries >= 1 /\ Len(calls) = maxRetries + 1 /\ pc = "thrown"

\* C2: when every attempt of fetchWithRetry is answered with HTTP 503, the
\* call makes exactly maxRetries + 1 attempts and then yields a Failure with
\* status 503.
C2_All503Exhausts ==
  (/\ kind = "fetch"
   /\ Settled
   /\ \A i \in Attempts : calls[i].outcome = Response(503))
  => /\ Len(calls) = maxRetries + 1
     /\ pc = "returned"
     /\ ~returned.success
     /\ returned.status = 503

\* C3: when the first two attempts of fetchWithRetry run into the deadline
\* and the third is answered with HTTP 200, the call returns Success with
\* metrics.retries = 2 and metrics.endpoint the first fallback URL, under
\* every ordering of the deadline timer, the cancellation and the completion
\* of the aborted call.
C3_Scenario ==
  /\ kind = "fetch"
  /\ Len(fallbackEndpoints) >= 1
  /\ maxRetries >= 2
  /\ Settled
  /\ \A i \in Attempts :
       IF i <= 2
         THEN /\ calls[i].aborted
              /\ calls[i].outcome \in {Pending, Rejection("AbortError")}
         ELSE calls[i].outcome = Response(200)

C3_TimeoutsThenFallbackSuccess ==
  C3_Scenario
  => /\ pc = "returned"
     /\ returned.success
     /\ returned.retries = 2
     /\ returned.endpoint = fallbackEndpoints[1]

\* the status an attempt failed with (0: none)
AttemptStatus(i) ==
  IF wt[i].state = "rejected" THEN wt[i].error.status
  ELSE IF wt[i].state = "fulfilled" /\ calls[i].outcome.k = "response"
            /\ ~validateStatus(calls[i].outcome.status)
    THEN calls[i].outcome.status
  ELSE 0

ClientErrorStatus(s) == s >= 400 /\ s < 500 /\ s \notin {408, 429}

\* C4: an attempt that fails with a status in [400,500) other than 408 and
\* 429 is the last attempt: the failure is surfaced at once, no backoff wait
\* is started for it, and a request answered 400 makes exactly one attempt.
C4_ClientErrorNotRetried ==
  \A i \in Attempts :
    ClientErrorStatus(AttemptStatus(i))
    => /\ i = Len(calls)
       /\ Settled
       /\ Len(warnings) = i - 1
       /\ \A t \in timers : t.kind # "backoff"
       /\ pc = "thrown" => lastError = wt[i].error
       /\ pc = "returned" => returned.status = AttemptStatus(i)

C4_Witness ==
  /\ kind = "fn"
  /\ maxRetries >= 1
  /\ Len(calls) = 1
  /\ wt[1].error = ApiResponseError(400)
  /\ pc = "thrown"

\* C5: fetchWithRetry always settles by returning a structured Result; its
\* promise never rejects.
C5_NeverRejects == kind = "fetch" => pc # "thrown"

\* C6: when the network call to the primary endpoint fails with a transport
\* error, a fallback endpoint is configured and maxRetries >= 1,
\* fetchWithRetry has sent a later attempt to a fallback endpoint by the
\* time it reports an outcome.
C6_FallbackAfterTransportError ==
  (/\ kind = "fetch"
   /\ Len(fallbackEndpoints) >= 1
   /\ maxRetries >= 1
   /\ Settled
   /\ Len(calls) >= 1
   /\ wt[1].state = "fulfilled"
   /\ calls[1].outcome \in {Rejection("TypeError:fetch"), Rejection("TypeError")})
  => \E i \in 2..Len(calls) : calls[i].url \in Range(fallbackEndpoints)

\* C7: attempt i of fetchWithRetry targets element i mod (1 + |F|) of the
\* rotation [A, ...F]; attempt 0 targets A, and with F empty every attempt
\* targets A.
C7_Rotation ==
  kind = "fetch"
  => \A i \in Attempts :
       calls[i].url =
         (<<PrimaryUrl>> \o fallbackEndpoints)[((i - 1) % (1 + Len(fallbackEndpoints))) + 1]

C7_Witness ==
  /\ kind = "fetch"
  /\ fallbackEndpoints = <<"B">>
  /\ Len(calls) = 3
  /\ calls[2].url = "B"
  /\ calls[3].url = PrimaryUrl

\* C8: for an operation that never settles, withTimeout rejects with the
\* ApiTimeoutError naming the operation and timeoutMs, at the deadline and
\* not before; once the deadline has passed it has rejected.
C8_TimeoutAtDeadline ==
  \A i \in Attempts :
    calls[i].outcome = Pending
    => /\ wt[i].state # "pending"
          => /\ wt[i].state = "rejected"
             /\ wt[i].error = ApiTimeoutError(<<i, maxRetries + 1>>, timeout)
             /\ wt[i].at >= wt[i].start + timeout
       /\ now > wt[i].start + timeout => wt[i].state = "rejected"

C8_Witness ==
  \E i \in Attempts :
    /\ timeout >= 2
    /\ calls[i].outcome = Pending
    /\ wt[i].state = "rejected"
    /\ wt[i].error.name = "ApiTimeoutError"

\* C9: once withTimeout has settled, none of the timers it created is still
\* pending.
C9_NoTimerLeft ==
  \A i \in Attempts :
    wt[i].state # "pending"
    => \A t \in timers : ~(t.attempt = i - 1 /\ t.kind \in {"abort", "reject"})

\* C10: when the deadline fires before the operation has settled, the
\* cancellation signal is fired and withTimeout ends in the ApiTimeoutError,
\* whatever the operation does once cancelled.
C10_DeadlineYieldsTimeout ==
  \A i \in Attempts :
    (calls[i].aborted /\ wt[i].state # "pending")
    => /\ wt[i].state = "rejected"
       /\ wt[i].error.name = "ApiTimeoutError"

\* C11: attempt N+1 starts only after the outcome of attempt N is known and,
\* attempt N having failed, after the backoff delay computed for it has
\* fully elapsed.
C11_Sequential ==
  \A i \in Attempts :
    i < Len(calls)
    => /\ wt[i].state = "rejected"
       /\ wt[i + 1].start >= wt[i].at + warnings[i].delay
       /\ wt[i].at >= wt[i].start

C11_Witness ==
  /\ Len(calls) = 2
  /\ wt[1].error.name = "ApiTimeoutError"
  /\ wt[2].start = wt[1].at + warnings[1].delay
  /\ warnings[1].delay > 0

\* C12: the backoff delay before retry n >= 1 lies between
\* retryBaseDelayMs * 2^(n-1) * 0.8 and retryBaseDelayMs * 2^(n-1) * 1.2.
C12_BackoffRange ==
  \A n \in 1..Len(warnings) :
    /\ warnings[n].attempt = n
    /\ 10 * warnings[n].delay >= 8 * initialDelay * Pow2(n - 1)
    /\ 10 * warnings[n].delay <= 12 * initialDelay * Pow2(n - 1)
    /\ n < Len(calls) => wt[n + 1].start - wt[n].at = warnings[n].delay

C12_Witness ==
  /\ Len(warnings) = 2
  /\ Len(calls) = 3
  /\ warnings[1].delay # warnings[2].delay
  /\ 10 * warnings[2].delay > 8 * initialDelay * 2

C15_MetricsOfAttempt ==
  (kind = "fetch" /\ pc = "returned")
  => /\ returned.metrics
     /\ returned.retries = Len(calls) - 1
     /\ returned.endpoint = calls[Len(calls)].url
     /\ calls[Len(calls)].outcome # Pending

C15_Witness ==
  /\ kind = "fetch"
  /\ pc = "returned"
  /\ Len(calls) = 3
  /\ returned.retries = 2
  /\ returned.endpoint = "C"
  /\ \E i \in {1, 2} : calls[i].outcome = Response(200)

\* C16: every Result fetchWithRetry returns has exactly one variant
\* populated: success with data and no error, or failure with an error and
\* no data; metrics is present in both.
C16_OneVariant ==
  (kind = "fetch" /\ pc = "returned")
  => /\ returned.metrics
     /\ returned.success
          => /\ returned.data # "undefined"
             /\ returned.message = "undefined"
             /\ returned.code = "undefined"
             /\ returned.status = 0
             /\ returned.details = "undefined"
     /\ ~returned.success
          => /\ returned.data = "undefined"
             /\ returned.message # "undefined"

C16_Witness ==
  /\ kind = "fetch"
  /\ pc = "returned"
  /\ ~returned.success
  /\ returned.status = 404
  /\ returned.details = "json:noChute"

ValidatorDone == validation.state \in {"returned", "thrown"}

\* the required keys the data has no value for
MissingKeys ==
  {i \in 1..Len(validation.requiredKeys) :
     validation.data.fields[validation.requiredKeys[i]] \in {"absent", "undefined"}}

\* C19: validateResponseData fails when the data is absent or not an object,
\* and when a required field is absent it fails with a ResponseError whose
\* message names the first missing field in requiredFields order.
C19_ValidatorFailure ==
  ValidatorDone
  => /\ validation.data.type # "object" => validation.state = "thrown"
     /\ (validation.data.type = "object" /\ MissingKeys # {})
        => /\ validation.state = "thrown"
           /\ validation.error.name = "ApiResponseError"
           /\ \E i \in MissingKeys :
                /\ \A j \in MissingKeys : i <= j
                /\ validation.error.field = validation.requiredKeys[i]

\* C20: with every required field present, validateResponseData returns the
\* shallow merge of the defaults under the data: a field of the data keeps the
\* data's value, a default is used only for a field the data does not have.
C20_DefaultsUnderData ==
  (ValidatorDone /\ validation.data.type = "object" /\ MissingKeys = {})
  => /\ validation.state = "returned"
     /\ \A k \in Keys :
          validation.value[k] =
            IF validation.data.fields[k] # "absent"
              THEN validation.data.fields[k]
              ELSE validation.defaultValues[k]

C20_Witness ==
  /\ validation.state = "returned"
  /\ validation.requiredKeys = <<"id", "name">>
  /\ validation.data.fields = [id |-> "x", name |-> "x", public |-> "absent"]
  /\ validation.defaultValues = [id |-> "absent", name |-> "d", public |-> "d"]
  /\ validation.value = [id |-> "x", name |-> "x", public |-> "d"]

ClientDone == client.state \in {"returned", "thrown"}

\* C17: when the request of listChutes to /chutes is answered with HTTP 404
\* and the body {"detail": "No matching chute found!"}, listChutes returns an
\* empty collection and raises no error.
C17_NoChutesIsEmptyList ==
  (/\ ClientDone
   /\ client.method = "listChutes"
   /\ pc = "returned"
   /\ calls[Cur].outcome.k = "response"
   /\ calls[Cur].outcome.status = 404
   /\ calls[Cur].outcome.body = "json:noChute")
  => /\ client.state = "returned"
     /\ client.value = "[]"

C17_Witness ==
  /\ client.state = "returned"
  /\ client.method = "listChutes"
  /\ client.value = "[]"
  /\ pc = "returned"
  /\ returned.status = 404
  /\ returned.details = "json:noChute"
  /\ calls[Cur].outcome.body = "json:noChute"

\* C18: every public client method returns data or raises an error whose
\* message starts with "Chutes API error: " or "Authentication error: ",
\* whatever way the request failed.
C18_TaggedErrors ==
  ClientDone
  => \/ client.state = "returned"
     \/ client.error.tag \in {"Chutes API error: ", "Authentication error: "}

\* the URL a call running alone gives its i-th attempt
SoloUrl(i) ==
  IF i > 1 /\ Len(fallbackEndpoints) > 0
    THEN allEndpoints[((i - 1) % Len(allEndpoints)) + 1]
    ELSE PrimaryUrl

\* the attempt a call running alone stops at, for the outcomes of its attempts:
\* it goes on exactly after an attempt that timed out, while retries are left
SoloStops(i) ==
  \/ wt[i].state = "fulfilled"
  \/ wt[i].state = "rejected" /\ i = maxRetries + 1

\* C14: two fetchWithRetry calls that run concurrently do not affect each
\* other: in every interleaving each call makes the attempts, targets the URLs
\* and returns the Result it would alone for the same outcomes of its attempts.
C14_Independent ==
  other.pc # "none"
  => /\ \A i \in Attempts :
          /\ calls[i].url = SoloUrl(i)
          /\ i < Len(calls) => /\ ~SoloStops(i)
                               /\ wt[i].error.name = "ApiTimeoutError"
          /\ calls[i].aborted => now >= wt[i].start + timeout
     /\ Len(calls) <= maxRetries + 1
     /\ Settled => /\ Len(calls) >= 1
                   /\ SoloStops(Cur)
     /\ pc = "returned"
        => returned = [FetchResult(calls[Cur].outcome, Cur - 1, SoloUrl(Cur))
                         EXCEPT !._retries = Cur - 1]
     /\ pc = "thrown" => lastError = ApiTimeoutError(OperationName(Cur - 1), timeout)

\* one call is answered on its second attempt while the other, started while
\* the first was under way, is answered on its first
C14_Witness ==
  /\ other.pc = "returned"
  /\ pc = "returned"
  /\ Len(calls) = 2
  /\ Len(other.calls) = 1
  /\ returned.retries = 1 /\ returned.endpoint = "B" /\ returned.success
  /\ other.returned.retries = 0 /\ other.returned.endpoint = "A"
  /\ other.returned.status = 503
  /\ other.wt[1].start > wt[1].start
  /\ other.wt[1].at >= wt[2].start

\* the response the Result of fetchWithRetry was built from
Answer == calls[Cur].outcome
Answered == kind = "fetch" /\ pc = "returned" /\ Answer.k = "response"

\* C21: for a response whose status is not a success status the failure
\* carries that status; message and details come from the body decoded as
\* JSON; a body that is not JSON is used as the message as plain text; the
\* generic "HTTP Error <status>" message is used only when neither can be read.
C21_ErrorBodyDecoded ==
  (Answered /\ ~validateStatus(Answer.status))
  => /\ ~returned.success
     /\ returned.status = Answer.status
     /\ IsJson(Answer.body) => returned.details = Answer.body
     /\ Answer.body = "json:message" => returned.message = "body.message"
     /\ Answer.body = "text" => returned.message = "body.text"
     /\ Answer.body = "empty" => returned.message = "HTTP Error"

\* C22: for a response with a success status fetchWithRetry returns Success;
\* its data is an empty object whenever the status is 204, the parsed JSON
\* when the content type is JSON, and the raw text for another content type.
C22_SuccessDecoded ==
  (/\ Answered
   /\ validateStatus(Answer.status)
   /\ (Answer.status = 204 \/ Answer.ctype # "json" \/ IsJson(Answer.body)))
  => /\ returned.success
     /\ returned.data = IF Answer.status = 204 THEN "{}" ELSE Answer.body

\* C23: every transport exception of the network call gives a Failure with
\* code NETWORK_ERROR, and every cancellation a Failure with code ABORTED.
C23_TransportErrorsWrapped ==
  (kind = "fetch" /\ pc = "returned")
  => /\ Answer.k \in {"TypeError:fetch", "TypeError"}
        => ~returned.success /\ returned.code = "NETWORK_ERROR"
     /\ Answer.k = "AbortError"
        => ~returned.success /\ returned.code = "ABORTED"

\* the attempts that failed: their withTimeout call rejected
FailedAttempts == {i \in Attempts : wt[i].state = "rejected"}

\* C24: when withRetry gives up, the failure it throws is the failure of the
\* last attempt made, not that of an earlier attempt.
C24_LastFailureSurfaced ==
  (pc = "thrown" /\ Len(calls) >= 1)
  => /\ wt[Cur].state = "rejected"
     /\ lastError = wt[Cur].error

C24_Witness ==
  /\ pc = "thrown"
  /\ Len(calls) = 2
  /\ maxRetries = 1
  /\ wt[1].error.name = "ApiResponseError" /\ wt[1].error.status = 503
  /\ wt[2].error.name = "Error"
  /\ lastError.name = "Error"

\* a failure withRetry retries after: no HTTP status, 5xx, 408, 429, timeout
Retryable(error) ==
  \/ error.name = "ApiTimeoutError"
  \/ error.status = 0
  \/ error.status >= 500
  \/ error.status \in {408, 429}

\* C25: if every attempt fails with a retryable failure, withRetry makes
\* exactly maxRetries + 1 attempts before it throws.
C25_RetryableExhausts ==
  (\A i \in FailedAttempts : Retryable(wt[i].error))
  => /\ pc = "thrown" => Len(calls) = maxRetries + 1
     /\ (pc = "backoff" \/ pc = "race") => Len(calls) <= maxRetries + 1
     /\ (pc = "backoff" => Len(calls) <= maxRetries)

C25_Witness ==
  /\ pc = "thrown"
  /\ maxRetries = 1
  /\ Len(calls) = 2
  /\ wt[1].error.status = 408
  /\ wt[2].error.status = 429

\* C26 as stated: after any run the number of warning lines equals the number
\* of attempts that failed.
C26_WarningPerFailure ==
  Settled => Len(warnings) = Cardinality(FailedAttempts)

\* C26 amended: withRetry emits one warning line, with the attempt count and
\* the computed delay, per failed attempt that it retries after; the failed
\* attempt it gives up on emits none.
C26_WarningPerRetry ==
  /\ Len(warnings) =
       Cardinality(FailedAttempts) - (IF pc = "thrown" THEN 1 ELSE 0)
  /\ \A n \in 1..Len(warnings) :
       /\ warnings[n].attempt = n
       /\ wt[n].state = "rejected"
       /\ \E r \in RandomSteps : warnings[n].delay = Backoff(n, r)

C26_Witness ==
  /\ pc = "thrown"
  /\ Len(calls) = 2
  /\ Cardinality(FailedAttempts) = 2
  /\ Len(warnings) = 1
  /\ warnings[1].attempt = 1

\* what a method delivers to its caller
Delivered(c) == [state |-> c.state, value |-> c.value, error |-> c.error]

\* C27: for every client request the request-start log event is followed by
\* a request-end or an exception log event, whatever the outcome.
C27_StartThenEnd ==
  ClientDone
  => \E i \in 1..Len(client.console) :
       /\ client.console[i] = "API Request"
       /\ \E j \in (i + 1)..Len(client.console) :
            client.console[j] \in {"API Success", "API Error", "API Exception"}

\* C28: the logging hooks leave the Result they are given and the request
\* state unchanged: what a client method delivers is what its code computes
\* from the Result of fetchWithRetry without the hooks.
C28_HooksObserveOnly ==
  [][(client.state = "called" /\ ClientDone')
     => /\ reqVars' = reqVars
        /\ \E isDeveloper \in BOOLEAN :
             Delivered(client') =
               MethodOutcome(client.method, pc, returned, lastError, isDeveloper)]_vars

C28_Witness ==
  /\ client.state = "returned"
  /\ client.method = "listChutes"
  /\ client.console = <<"API Request", "API Error">>
  /\ returned.details = "json:noChute"
  /\ returned.status = 404

BucketState(l) == <<l.tokens, l.lastRefill>>

\* C30 as stated: the token count and the last-refill time of a rate limiter
\* are changed only by its checkLimit call.
C30_OnlyCheckLimitWrites ==
  [][BucketState(limiter') # BucketState(limiter)
       => limiter'.op = "checkLimit"]_vars

\* C30 amended: the token count and the last-refill time are changed only by
\* the limiter's checkLimit and reset calls; getMetrics leaves them unchanged.
C30_OnlyCheckLimitAndResetWrite ==
  [][BucketState(limiter') # BucketState(limiter)
       => limiter'.op \in {"checkLimit", "reset"}]_vars

C30_Witness ==
  /\ limiter.op = "getMetrics"
  /\ limiter.tokens = 0
  /\ limiter.limit = 2
  /\ limiter.lastRefill < now
  /\ limiter.metrics.availableTokens = 0
  /\ limiter.metrics.timeSinceLastRefill = now - limiter.lastRefill

\* C31: constructing the plugin with an API key that is missing, is the
\* placeholder value or is shorter than 8 characters is rejected with an
\* error, and no client is created.
C31_InvalidKeyRejected ==
  (/\ plugin.state \in {"constructed", "thrown"}
   /\ \/ plugin.apiKey.kind = "undefined"
      \/ plugin.apiKey.kind = "placeholder"
      \/ plugin.apiKey.length < 8)
  => /\ plugin.state = "thrown"
     /\ ~plugin.client

\* C32: when the operation of an attempt settles before the deadline,
\* withTimeout settles with exactly the operation's value or error, and the
\* signal handed to that operation is never fired afterwards (its abort timer
\* is cleared).
SettledEarly(i) ==
  wt[i].state # "pending" /\ wt[i].at < wt[i].start + timeout

C32_EarlySettleWinsAndNeverAborts ==
  \A i \in 1..Len(wt) :
    SettledEarly(i) =>
      /\ calls[i].outcome # Pending
      /\ LET s == FnSettles(calls[i].outcome, retryAttempt, currentUrl)
         IN /\ wt[i].state = IF s.fulfilled THEN "fulfilled" ELSE "rejected"
            /\ wt[i].error = s.error
            /\ s.fulfilled /\ i = Len(wt) => returned.tag = s.value.tag
      /\ ~calls[i].aborted
      /\ \A t \in timers : ~(t.kind = "abort" /\ t.attempt = i - 1)

C32_Witness ==
  \E i \in 1..Len(wt) :
    /\ SettledEarly(i)
    /\ now >= wt[i].start + timeout
    /\ ~calls[i].aborted

\* C33: deleteChute returns true whenever the server answers the DELETE
\* request with status 404, whatever the body of that answer.
C33_Delete404IsTrue ==
  (/\ client.method = "deleteChute"
   /\ ClientDone
   /\ Answered
   /\ Answer.status = 404)
  => /\ client.state = "returned"
     /\ client.value = "true"

\* C34: every fetchWithRetry call eventually settles (returns a Result or
\* rejects), even when no attempt's network call ever completes, provided
\* timers fire.
C34_EventuallySettles == <>Settled

\* the call has settled although no network call ever completed
C34_Witness ==
  /\ kind = "fetch"
  /\ Settled
  /\ Len(calls) >= 2
  /\ \A i \in 1..Len(calls) : calls[i].outcome = Pending

\* C35: once an attempt was declared timed out, a later completion of its
\* network call never becomes the Result of the fetchWithRetry call and never
\* changes the retries or the endpoint reported in the Result of a later
\* attempt.
LateCompletion ==
  \E i \in 1..Len(calls) :
    /\ wt[i].state = "rejected"
    /\ wt[i].error.name = "ApiTimeoutError"
    /\ calls[i].outcome = Pending
    /\ calls'[i].outcome # Pending

C35_LateCompletionIsDropped ==
  [][LateCompletion =>
       /\ returned' = returned
       /\ pc' = pc
       /\ retryAttempt' = retryAttempt
       /\ currentUrl' = currentUrl]_vars

\* the first attempt timed out, its call completed with a response later, and
\* the Result is that of the second attempt
C35_Witness ==
  /\ kind = "fetch"
  /\ Len(calls) = 2
  /\ wt[1].error.name = "ApiTimeoutError"
  /\ calls[1].outcome.k = "response"
  /\ pc = "returned"
  /\ returned.metrics
  /\ returned.retries = 1

\* C36: at most one attempt's network call is in flight for one
\* fetchWithRetry call: when a later attempt has issued its call, the call of
\* every earlier attempt has settled or has had its signal fired.
C36_OneCallInFlight ==
  kind = "fetch" =>
    \A i \in 1..Len(calls) :
      i < Len(calls) => calls[i].outcome # Pending \/ calls[i].aborted

\* the second attempt has issued its call while the first, cancelled, has
\* not settled
C36_Witness ==
  /\ kind = "fetch"
  /\ Len(calls) = 2
  /\ calls[1].outcome = Pending
  /\ calls[1].aborted
  /\ calls[2].outcome = Pending
  /\ ~calls[2].aborted

\* the URL an attempt fetches: the primary URL is `${this.baseUrl}${endpoint}`,
\* an entry of fallbackEndpoints (FALLBACK_ENDPOINTS: base URLs) is fetched as
\* it stands
RequestUrl(u) ==
  IF u = PrimaryUrl
    THEN [base |-> "baseUrl", path |-> Endpoint(client.method)]
    ELSE [base |-> u, path |-> ""]

\* C37: every attempt of one client request asks for the same resource path
\* as the primary URL: an attempt sent to a fallback endpoint addresses the
\* fallback's base URL followed by the path of the request.
C37_SamePathOnEveryEndpoint ==
  client.state # "none" =>
    \A i \in 1..Len(calls) :
      RequestUrl(calls[i].url).path = Endpoint(client.method)

\* C38: for a rate limiter created with limit >= 0 and timeWindow > 0 the
\* token count stays within 0 <= tokens <= limit after any sequence of
\* checkLimit, getMetrics and reset calls.
C38_TokensWithinLimit ==
  limiter.op # "none" =>
    /\ 0 <= limiter.tokens
    /\ limiter.tokens <= limiter.limit

\* C39: after the bucket has been exhausted, once at least timeWindow
\* milliseconds have elapsed since the checkLimit call that took the last
\* token, the next checkLimit returns true, however many checkLimit calls
\* were made in between.  (Stated here for limiters of a whole, positive
\* number of tokens.)
WindowElapsed ==
  /\ limiter.op # "none"
  /\ limiter.limit >= TokenUnit
  /\ limiter.limit % TokenUnit = 0
  /\ limiter.exhaustedAt >= 0
  /\ now - limiter.exhaustedAt >= limiter.timeWindow

C39_AllowedAfterWindow ==
  [][WindowElapsed /\ CheckLimit => limiter'.allowed]_vars

\* C40: validateResponseData is idempotent: applied again to its own output
\* with the same required keys and defaults it succeeds and returns an object
\* equal to that output.
C40_Idempotent ==
  validation.state = "returned" /\ validation.again.state # "none"
  => /\ validation.again.state = "returned"
     /\ validation.again.value = validation.value

\* the second call ran on an output that holds a value of the data, a default
\* and a required key
C40_Witness ==
  /\ validation.again.state = "returned"
  /\ validation.requiredKeys = <<"id">>
  /\ validation.data.fields = [id |-> "x", name |-> "undefined", public |-> "absent"]
  /\ validation.defaultValues = [id |-> "absent", name |-> "d", public |-> "d"]
  /\ validation.again.value = [id |-> "x", name |-> "undefined", public |-> "d"]

====
